---------------------------- MODULE Spec2Model ----------------------------
(***************************************************************************)
(* Weblate API client of fedora-l10n (src/src/fedora_l10n/api.py): the     *)
(* credential resolver, the disk cache with its TTL, the process-wide rate *)
(* limiter, the retry loop with exponential backoff and the pagination     *)
(* traversal, together with the worker threads of main.py that call them.  *)
(*                                                                         *)
(* Time is counted in units of 0.3 s, so RATE_DELAY (0.6 s) is 2 and       *)
(* CACHE_TTL (3600 s) is 12000.  Code between two blocking points (a       *)
(* sleep, a network call, waiting for the user) takes no time; the clock   *)
(* advances only while every caller blocks.                                *)
(*                                                                         *)
(* The code reads the clock only to subtract a recorded instant from it    *)
(* and compare the difference with RATE_DELAY or CACHE_TTL.  Instants are  *)
(* therefore kept relative to the present: time.time() is the fixed value  *)
(* now, and when d units pass every recorded instant moves d units into    *)
(* the past (Pass).  An instant is not followed further back than the      *)
(* constant it is compared with.                                           *)
(*                                                                         *)
(* Python values are records throughout: a str is a sequence of one-       *)
(* character strings, an optional value is [some, v], a JSON value is      *)
(* [t, ...] with t its type.                                               *)
(***************************************************************************)
EXTENDS Integers, Sequences, FiniteSets, TLC

----------------------------------------------------------------------------
(* Program constants (api.py:13-15), in units of 0.3 s.                    *)

CACHE_TTL == 12000

RATE_DELAY == 2

MAX_RETRIES == 5

----------------------------------------------------------------------------
(* Bounds of the model.                                                    *)

\* operations a caller starts in one run
MaxOps == 3

\* disturbances in a run of several operations: short pauses (1 unit each)
\* while a caller blocks, and network calls answered with anything but a JSON
\* object
MaxFaults == 2

----------------------------------------------------------------------------
(* Python values.                                                          *)

None == [some |-> FALSE, v |-> <<>>]

Some(s) == [some |-> TRUE, v |-> s]

\* truthiness of an optional str: None and "" are falsy
Truthy(o) == o.some /\ o.v # <<>>

PyOrSecond(a, b) == IF Truthy(b) THEN b ELSE a

\* a or b on optional strs
PyOr(a, b) == IF Truthy(a) THEN a ELSE b

IsSpace(c) == c = " "

RECURSIVE LStrip(_)
LStrip(s) == IF s # <<>> /\ IsSpace(Head(s)) THEN LStrip(Tail(s)) ELSE s

RECURSIVE RStrip(_)
RStrip(s) ==
    IF s # <<>> /\ IsSpace(s[Len(s)]) THEN RStrip(SubSeq(s, 1, Len(s) - 1)) ELSE s

\* str.strip()
Strip(s) == RStrip(LStrip(s))

\* 2 ** n
RECURSIVE Pow2(_)
Pow2(n) == IF n = 0 THEN 1 ELSE 2 * Pow2(n - 1)

Min(a, b) == IF a < b THEN a ELSE b

\* JSON values
JNull == [t |-> "null"]

JStr(s) == [t |-> "str", s |-> s]

JNum(n) == [t |-> "num", n |-> n]

JList(l) == [t |-> "list", l |-> l]

JObj(o) == [t |-> "obj", o |-> o]

\* the result of a call: a value returned or an exception raised
Ret(v) == [kind |-> "val", val |-> v, exc |-> "-"]

Raise(e) == [kind |-> "raise", val |-> JNull, exc |-> e]

\* Python's None as a returned value
RetNone == Ret(JNull)

----------------------------------------------------------------------------
(* The credential resolver's pure part (api.py:21-61).                     *)

\* os.environ.get("WEBLATE_API_KEY") or os.environ.get("FEDORA_WEBLATE_KEY")
EnvLookupFirstOnly(e) == e.WEBLATE_API_KEY

EnvLookup(e) == PyOr(e.WEBLATE_API_KEY, e.FEDORA_WEBLATE_KEY)

\* the try block of lines 34-50: a store that is unavailable raises inside it,
\* which the except clause turns into "no value"
SecretLookup(s) == IF s.avail THEN s.v ELSE None

\* config file states
CfgAbsent == [st |-> "absent", text |-> <<>>]

CfgUnreadable == [st |-> "unreadable", text |-> <<>>]

CfgText(s) == [st |-> "text", text |-> s]

\* no file, and its directory cannot be created or written (lines 91-92)
CfgBlocked == [st |-> "blocked", text |-> <<>>]

\* JSON true, Python's True
JTrue == [t |-> "true"]

StoreOutcomeBoth(s, c, k) ==
    [secret |-> IF s.avail THEN [s EXCEPT !.v = k] ELSE s,
     cfg |-> IF c.st \in {"unreadable", "blocked"} THEN c ELSE CfgText(k.v),
     ret |-> IF ~s.avail /\ c.st \in {"unreadable", "blocked"}
             THEN Raise("OSError") ELSE Ret(JTrue),
     tried |-> <<"secret", "file">>]

\* lines 69-94 of save_api_key(k): the secret store first (a store that is
\* unavailable raises inside the try block), the config file only after
\* that failed; an OSError of mkdir, write_text or chmod leaves the function
StoreOutcome(s, c, k) ==
    IF s.avail
    THEN [secret |-> [s EXCEPT !.v = k], cfg |-> c, ret |-> Ret(JTrue),
          tried |-> <<"secret">>]
    ELSE IF c.st \in {"unreadable", "blocked"}
    THEN [secret |-> s, cfg |-> c, ret |-> Raise("OSError"),
          tried |-> <<"secret", "file">>]
    ELSE [secret |-> s, cfg |-> CfgText(k.v), ret |-> Ret(JTrue),
          tried |-> <<"secret", "file">>]

\* lines 27-61 from the not-yet-resolved state: the outcome of the lookup chain,
\* the value to memoize and the sources queried, in order
LookupChain(e, s, c) ==
    IF Truthy(EnvLookup(e))
    THEN [out |-> "found", key |-> EnvLookup(e).v, queried |-> <<"env">>]
    ELSE IF Truthy(SecretLookup(s))
    THEN [out |-> "found", key |-> SecretLookup(s).v,
          queried |-> <<"env", "secret">>]
    ELSE IF c.st = "absent"
    THEN [out |-> "absent", key |-> <<>>, queried |-> <<"env", "secret", "file">>]
    ELSE IF c.st = "unreadable"
    THEN [out |-> "raise", key |-> <<>>, queried |-> <<"env", "secret", "file">>]
    ELSE IF Strip(c.text) # <<>>
    THEN [out |-> "found", key |-> Strip(c.text),
          queried |-> <<"env", "secret", "file">>]
    ELSE [out |-> "absent", key |-> <<>>, queried |-> <<"env", "secret", "file">>]

IsResolvedPresent(m) == Truthy(m)

\* line 24: _api_key is not None
IsResolved(m) == m.some

MemoValueForgets(m) == None

\* lines 24-25: the memoized value as returned (None for "" and for unset)
MemoValue(m) == IF Truthy(m) THEN m ELSE None

----------------------------------------------------------------------------
(* The disk cache's pure part (api.py:102-125).                            *)

\* cache file states: no file; a file whose read fails (OSError); bytes that
\* are not UTF-8; text that is not JSON; text that parses to the JSON value v
FAbsent == [st |-> "absent", v |-> JNull]

FUnreadable == [st |-> "unreadable", v |-> JNull]

FUndecodable == [st |-> "undecodable", v |-> JNull]

FGarbled == [st |-> "garbled", v |-> JNull]

FJson(v) == [st |-> "json", v |-> v]

\* dict.get(k, default) on a JSON object
Get(d, k, default) == IF k \in DOMAIN d.o THEN d.o[k] ELSE default

\* json.dumps({"_ts": time.time(), "_payload": payload}) as later parsed
EntryStale(ts, payload) == FJson(JObj([_ts |-> JNum(0), _payload |-> payload]))

\* line 121: {"_ts": time.time(), "_payload": data}
Entry(ts, payload) == FJson(JObj([_ts |-> JNum(ts), _payload |-> payload]))

FreshOffByOne(t, ts) == t - ts <= CACHE_TTL

\* line 112: time.time() - data.get("_ts", 0) < CACHE_TTL
Fresh(t, ts) == t - ts < CACHE_TTL

\* lines 109-116 on the file f at time t
ReadCacheFile(f, t) ==
    CASE f.st = "absent" -> RetNone
      [] f.st = "unreadable" -> RetNone
      [] f.st = "garbled" -> RetNone
      [] f.st = "undecodable" -> Raise("UnicodeDecodeError")
      [] f.st = "json" ->
            IF f.v.t # "obj" THEN Raise("AttributeError")
            ELSE LET ts == Get(f.v, "_ts", JNum(0))
                 IN  IF ts.t # "num" THEN Raise("TypeError")
                     ELSE IF Fresh(t, ts.n) THEN Ret(Get(f.v, "_payload", JNull))
                     ELSE RetNone

CachedNeverHit(c) == FALSE

\* line 133: cached is not None
CachedIsHit(c) == c.val # JNull

\* an entry a successful fetch wrote and that line 112 still accepts at time t
ValidEntry(f, t) ==
    /\ f.st = "json" /\ f.v.t = "obj"
    /\ DOMAIN f.v.o = {"_ts", "_payload"}
    /\ f.v.o["_ts"].t = "num" /\ t - f.v.o["_ts"].n < CACHE_TTL
    /\ f.v.o["_payload"].t # "null"

----------------------------------------------------------------------------
(* The retry loop's pure part (api.py:136-165).                            *)

RateWaitNever(elapsed) == 0

\* lines 137-139: the rate limiter's sleep for an elapsed time
RateWait(elapsed) == IF elapsed < RATE_DELAY THEN RATE_DELAY - elapsed ELSE 0

BackoffLinear(attempt) == RATE_DELAY * (attempt + 1)

\* lines 155 and 161: RATE_DELAY * (2 ** attempt)
Backoff(attempt) == RATE_DELAY * Pow2(attempt)

IsRateLimitedOr5xx(code) == code = 429 \/ code >= 500

\* line 154: the one status that is retried
IsRateLimited(code) == code = 429

InRangeOneMore(attempt) == attempt <= MAX_RETRIES

\* line 136: attempt in range(MAX_RETRIES)
InRange(attempt) == attempt < MAX_RETRIES

AttemptsRemainOffByOne(attempt) == attempt < MAX_RETRIES

\* line 160: attempts remain after this one
AttemptsRemain(attempt) == attempt < MAX_RETRIES - 1

----------------------------------------------------------------------------
(* The world the client runs in.                                           *)

\* statistics endpoints (api.py:188-193, 208-209)
StatUrls == {"s1", "s2"}

\* pages of a list endpoint (api.py:171, 198)
PageUrls == {"p1", "p2", "p3"}

Urls == StatUrls \cup PageUrls

\* line 102-104: the cache file of a URL; the 64-bit digest prefix is taken to
\* separate the URLs of the model
CachePath(u) ==
    CASE u = "s1" -> "a1.json" [] u = "s2" -> "b2.json" [] u = "p1" -> "c3.json"
      [] u = "p2" -> "d4.json" [] u = "p3" -> "e5.json"

Paths == {CachePath(u) : u \in Urls}

\* the worker threads of main.py:432-459 and 555-571; Solo is a single caller
Callers == {"w1", "w2"}

Solo == {"w1"}

\* bodies a statistics endpoint answers with: zero percentages to a request
\* without a token (spec.md, section 6), and JSON null is a body as well
StatBodies(auth) ==
    {JNull, JObj([translated_percent |-> JNum(IF Truthy(auth) THEN 50 ELSE 0)])}

\* time.time(): the present, on a clock whose instants of interest lie in
\* the last CACHE_TTL units
now == CACHE_TTL

Max(a, b) == IF a > b THEN a ELSE b

VARIABLES
    last_request_time,  \* _last_request_time (line 17)
    api_key,            \* _api_key (line 18): None, Some("") or Some(key)
    env,                \* os.environ: the two variables of line 28
    secret,             \* the keyring: [avail, v]
    cfg,                \* ~/.config/fedora-l10n/api-key
    cacheDir,           \* CACHE_DIR: "ok", "missing", "blocked" (cannot be
                        \* created) or "full" (exists, writes fail)
    files,              \* the files of CACHE_DIR, by name
    server,             \* what the list endpoint serves: a body per page URL
    thr,                \* each caller's frame: position and locals
    opsLeft,            \* operations the callers may still start
    faultsLeft,         \* disturbances the run may still see
    lastStart,          \* history: start instant of the latest network call,
                        \* -1 before the first
    gap,                \* history: gap between the latest two starts (cut off
                        \* at RATE_DELAY), -1 before the second call
    lastOp              \* history: the latest operation finished

vars ==
    <<last_request_time, api_key, env, secret, cfg, cacheDir, files, server,
      thr, opsLeft, faultsLeft, lastStart, gap, lastOp>>

credVars == <<env, secret, cfg>>

histVars == <<lastStart, gap>>

\* no operation finished yet
NoOp ==
    [op |-> "-", url |-> "-", ok |-> FALSE, wrote |-> FALSE, valid |-> {},
     key |-> None, raised |-> FALSE]

\* a caller that runs nothing
IdleThread ==
    [pc |-> "idle", op |-> "-", url |-> "-", use_cache |-> FALSE, attempt |-> 0,
     key |-> None, data |-> JNull, ret |-> RetNone, wake |-> now,
     \* pagination locals (lines 170-185)
     all |-> <<>>, page |-> 0, callback |-> FALSE,
     \* history of the running _fetch: network calls made; whether the first
     \* was answered with a body; whether all were answered 429; the kind
     \* of the latest answer; the sleeps asked for; OSErrors outside the
     \* network call; the cache file as read and when; the sources queried;
     \* the operation that finished before this one started
     calls |-> 0, firstOk |-> FALSE, all429 |-> TRUE, last |-> "-",
     backoffs |-> <<>>, rsleeps |-> <<>>, ioerrs |-> 0,
     seen |-> FAbsent, hit |-> FALSE,
     queried |-> <<>>, prev |-> NoOp,
     \* the file this caller holds open for writing has been unlinked
     orphan |-> FALSE,
     \* history of the running traversal
     pages |-> <<>>, cbs |-> <<>>, fetches |-> 0]

EnterFetchThroughCache(r, u, uc) ==
    [r EXCEPT !.pc = "L109",
              !.url = u, !.use_cache = uc, !.attempt = 0, !.key = None,
              !.data = JNull, !.ret = RetNone, !.wake = now,
              !.calls = 0, !.firstOk = FALSE, !.all429 = TRUE, !.last = "-",
              !.backoffs = <<>>, !.rsleeps = <<>>, !.ioerrs = 0,
              !.seen = FAbsent, !.hit = FALSE,
              !.queried = <<>>, !.fetches = r.fetches + 1]
\* the frame on entry to _fetch(u, uc) (line 128)
EnterFetch(r, u, uc) ==
    [r EXCEPT !.pc = IF uc THEN "L109" ELSE "L137",
              !.url = u, !.use_cache = uc, !.attempt = 0, !.key = None,
              !.data = JNull, !.ret = RetNone, !.wake = now,
              !.calls = 0, !.firstOk = FALSE, !.all429 = TRUE, !.last = "-",
              !.backoffs = <<>>, !.rsleeps = <<>>, !.ioerrs = 0,
              !.seen = FAbsent, !.hit = FALSE,
              !.queried = <<>>, !.fetches = r.fetches + 1]

----------------------------------------------------------------------------
(* _fetch (api.py:128-165), one action per step between two accesses of    *)
(* shared state or blocking points.                                        *)

Put(t, r) == thr' = [thr EXCEPT ![t] = r]

OnOSErrorSwallowed(r, exc, t) ==
    IF AttemptsRemain(r.attempt)
    THEN [r EXCEPT !.pc = "bsleep", !.wake = t + Backoff(r.attempt),
                   !.backoffs = Append(@, Backoff(r.attempt))]
    ELSE [r EXCEPT !.pc = "ret", !.ret = RetNone]
\* lines 159-163: an OSError (URLError included) raised inside the try block
OnOSError(r, exc, t) ==
    IF AttemptsRemain(r.attempt)
    THEN [r EXCEPT !.pc = "bsleep", !.wake = t + Backoff(r.attempt),
                   !.backoffs = Append(@, Backoff(r.attempt))]
    ELSE [r EXCEPT !.pc = "ret", !.ret = Raise(exc)]

OnHTTPErrorFinalReturns(r, code, t) ==
    IF IsRateLimited(code) /\ AttemptsRemain(r.attempt)
    THEN [r EXCEPT !.pc = "bsleep", !.wake = t + Backoff(r.attempt),
                   !.backoffs = Append(@, Backoff(r.attempt))]
    ELSE IF IsRateLimited(code)
    THEN [r EXCEPT !.pc = "ret", !.ret = RetNone]
    ELSE [r EXCEPT !.pc = "ret", !.ret = Raise("HTTPError")]
\* lines 153-158: an HTTPError with status code
OnHTTPError(r, code, t) ==
    IF IsRateLimited(code)
    THEN [r EXCEPT !.pc = "bsleep", !.wake = t + Backoff(r.attempt),
                   !.backoffs = Append(@, Backoff(r.attempt))]
    ELSE [r EXCEPT !.pc = "ret", !.ret = Raise("HTTPError")]

\* a caller starts get_project_statistics and its like (lines 188-193, 208-209):
\* one _fetch; use_cache is _fetch's parameter
Fetch(t) ==
    /\ thr[t].pc = "idle" /\ opsLeft > 0
    /\ \E u \in StatUrls, uc \in BOOLEAN :
          Put(t, [EnterFetch(IdleThread, u, uc) EXCEPT !.op = "fetch",
                                                        !.prev = lastOp])
    /\ opsLeft' = opsLeft - 1
    /\ UNCHANGED <<last_request_time, api_key, credVars, cacheDir, files,
                   server, faultsLeft, histVars, lastOp>>

\* line 109: p.exists()
CacheExists(t) ==
    /\ thr[t].pc = "L109"
    /\ Put(t, [thr[t] EXCEPT
                 !.pc = IF files[CachePath(thr[t].url)].st = "absent"
                        THEN "L137" ELSE "L111"])
    /\ UNCHANGED <<last_request_time, api_key, credVars, cacheDir, files,
                   server, opsLeft, faultsLeft, histVars, lastOp>>

\* lines 110-116 and 133-134: read the file, return a hit
CacheRead(t) ==
    /\ thr[t].pc = "L111"
    /\ LET f == files[CachePath(thr[t].url)]
           c == ReadCacheFile(f, now)
           r == [thr[t] EXCEPT !.seen = f]
       IN  Put(t, IF c.kind = "raise" THEN [r EXCEPT !.pc = "ret", !.ret = c]
                  ELSE IF CachedIsHit(c)
                  THEN [r EXCEPT !.pc = "ret", !.ret = c, !.hit = TRUE]
                  ELSE [r EXCEPT !.pc = "L137"])
    /\ UNCHANGED <<last_request_time, api_key, credVars, cacheDir, files,
                   server, opsLeft, faultsLeft, histVars, lastOp>>

\* lines 136-139 and 165: the loop head and the rate limiter
LoopHead(t) ==
    /\ thr[t].pc = "L137"
    /\ LET r == thr[t]
           w == RateWait(now - last_request_time)
       IN  Put(t, IF ~InRange(r.attempt)
                  THEN [r EXCEPT !.pc = "ret", !.ret = RetNone]
                  ELSE IF w > 0
                  THEN [r EXCEPT !.pc = "rsleep", !.wake = now + w,
                                 !.rsleeps = Append(@, w)]
                  ELSE [r EXCEPT !.pc = "L143"])
    /\ UNCHANGED <<last_request_time, api_key, credVars, cacheDir, files,
                   server, opsLeft, faultsLeft, histVars, lastOp>>

\* line 139: time.sleep returns, no earlier than asked
RateWake(t) ==
    /\ thr[t].pc = "rsleep" /\ now >= thr[t].wake
    /\ Put(t, [thr[t] EXCEPT !.pc = "L143"])
    /\ UNCHANGED <<last_request_time, api_key, credVars, cacheDir, files,
                   server, opsLeft, faultsLeft, histVars, lastOp>>

\* lines 143 and 24-25: _get_api_key returns the memoized value
KeyMemo(t) ==
    /\ thr[t].pc = "L143"
    /\ Put(t, IF IsResolved(api_key)
              THEN [thr[t] EXCEPT !.pc = "L146", !.key = MemoValue(api_key)]
              ELSE [thr[t] EXCEPT !.pc = "L28"])
    /\ UNCHANGED <<last_request_time, api_key, credVars, cacheDir, files,
                   server, opsLeft, faultsLeft, histVars, lastOp>>

\* lines 28-58: the lookup chain; an unreadable config file raises OSError
\* into the try block of _fetch
KeyLookup(t) ==
    /\ thr[t].pc = "L28"
    /\ LET c == LookupChain(env, secret, cfg)
           r == [thr[t] EXCEPT !.queried = c.queried]
       IN  Put(t, IF c.out = "raise"
                  THEN IF r.op = "_get_api_key"
                       THEN [r EXCEPT !.pc = "done", !.ret = Raise("OSError")]
                       ELSE OnOSError([r EXCEPT !.ioerrs = @ + 1], "OSError", now)
                  ELSE [r EXCEPT !.pc = "L60", !.key = Some(c.key)])
    /\ UNCHANGED <<last_request_time, api_key, credVars, cacheDir, files,
                   server, opsLeft, faultsLeft, histVars, lastOp>>

\* lines 30, 47, 57 and 60: memoize what the chain found ("" for nothing)
KeyStore(t) ==
    /\ thr[t].pc = "L60"
    /\ api_key' = thr[t].key
    /\ Put(t, [thr[t] EXCEPT !.pc = "L146", !.key = MemoValue(thr[t].key)])
    /\ UNCHANGED <<last_request_time, credVars, cacheDir, files,
                   server, opsLeft, faultsLeft, histVars, lastOp>>

\* a caller outside _fetch asks for the key (has_api_key, line 99)
GetApiKey(t) ==
    /\ thr[t].pc = "idle" /\ opsLeft > 0
    /\ Put(t, [IdleThread EXCEPT !.op = "_get_api_key", !.pc = "L143",
                                 !.prev = lastOp])
    /\ opsLeft' = opsLeft - 1
    /\ UNCHANGED <<last_request_time, api_key, credVars, cacheDir, files,
                   server, faultsLeft, histVars, lastOp>>

\* lines 25, 31, 48, 58 and 61: the key, or None, goes back to that caller
KeyReturn(t) ==
    /\ thr[t].pc = "L146" /\ thr[t].op = "_get_api_key"
    /\ Put(t, [thr[t] EXCEPT !.pc = "done",
                             !.ret = Ret(IF Truthy(thr[t].key)
                                         THEN JStr(thr[t].key.v) ELSE JNull)])
    /\ UNCHANGED <<last_request_time, api_key, credVars, cacheDir, files,
                   server, opsLeft, faultsLeft, histVars, lastOp>>

\* the environment variables are removed from os.environ (line 28 reads
\* them at each lookup); remembers whether a key was handed out just before
ClearEnv ==
    /\ \A t \in Callers : thr[t].pc = "idle"
    /\ env # [WEBLATE_API_KEY |-> None, FEDORA_WEBLATE_KEY |-> None]
    /\ env' = [WEBLATE_API_KEY |-> None, FEDORA_WEBLATE_KEY |-> None]
    /\ lastOp' = [lastOp EXCEPT !.op = "unsetenv",
                                !.ok = lastOp.op = "_get_api_key" /\ lastOp.ok]
    /\ UNCHANGED <<last_request_time, api_key, secret, cfg, cacheDir, files,
                   server, thr, opsLeft, faultsLeft, histVars>>

\* the process ends and a new one starts: lines 17-18 run again
Restart ==
    /\ \A t \in Callers : thr[t].pc = "idle"
    /\ opsLeft > 0 /\ api_key # None
    /\ api_key' = None
    /\ last_request_time' = now - RATE_DELAY
    /\ opsLeft' = opsLeft - 1
    /\ lastOp' = [lastOp EXCEPT !.op = "restart", !.ok = FALSE]
    /\ UNCHANGED <<credVars, cacheDir, files, server, thr, faultsLeft,
                   histVars>>

\* the keys a user may save (main.py:653-655 passes a stripped, non-empty
\* one; the function takes any str)
Tokens == {<<"n">>, <<>>}

\* lines 66-67: save_api_key(key) starts and memoizes key
SaveMemo(t) ==
    /\ thr[t].pc = "idle" /\ opsLeft > 0
    /\ \E k \in Tokens :
          /\ api_key' = Some(k)
          /\ Put(t, [IdleThread EXCEPT !.op = "save_api_key", !.pc = "L69",
                                       !.key = Some(k), !.prev = lastOp])
    /\ opsLeft' = opsLeft - 1
    /\ UNCHANGED <<last_request_time, credVars, cacheDir, files,
                   server, faultsLeft, histVars, lastOp>>

\* lines 69-94: store the key, return True; on_response goes on to its
\* next statement unless the store raised
SaveStore(t) ==
    /\ thr[t].pc = "L69"
    /\ LET o == StoreOutcome(secret, cfg, thr[t].key)
       IN  /\ secret' = o.secret
           /\ cfg' = o.cfg
           /\ Put(t, [thr[t] EXCEPT
                        !.pc = IF thr[t].op = "on_response" /\ o.ret.kind = "val"
                               THEN "L656" ELSE "done",
                        !.ret = o.ret, !.queried = o.tried])
    /\ UNCHANGED <<last_request_time, api_key, env, cacheDir, files,
                   server, opsLeft, faultsLeft, histVars, lastOp>>

NetStartNoRecord(t) ==
    /\ thr[t].pc = "L146" /\ thr[t].op # "_get_api_key"
    /\ lastStart' = now
    /\ gap' = IF lastStart < 0 THEN -1 ELSE Min(now - lastStart, RATE_DELAY)
    /\ Put(t, [thr[t] EXCEPT !.pc = "net", !.calls = @ + 1])
    /\ UNCHANGED <<last_request_time, api_key, credVars, cacheDir, files, server,
                   opsLeft, faultsLeft, lastOp>>

\* lines 146-148: record the instant, start the network call
NetStart(t) ==
    /\ thr[t].pc = "L146" /\ thr[t].op # "_get_api_key"
    /\ last_request_time' = now
    /\ lastStart' = now
    /\ gap' = IF lastStart < 0 THEN -1 ELSE Min(now - lastStart, RATE_DELAY)
    /\ Put(t, [thr[t] EXCEPT !.pc = "net", !.calls = @ + 1])
    /\ UNCHANGED <<api_key, credVars, cacheDir, files, server, opsLeft, faultsLeft,
                   lastOp>>

\* what the server or the network may answer to a request for u that
\* carries the token auth
Responses(u, auth) ==
    {[k |-> "ok", code |-> 200, body |-> b] :
        b \in IF u \in PageUrls THEN {server[u]} ELSE StatBodies(auth)}
    \cup {[k |-> "http", code |-> c, body |-> JNull] : c \in {429, 404, 500}}
    \cup {[k |-> "transient", code |-> 0, body |-> JNull],
          [k |-> "badbody", code |-> 200, body |-> JNull]}

\* a JSON object came back
Answered(o) == o.k = "ok" /\ o.body.t = "obj"

\* lines 148-163: the call ends: a decoded body, an HTTP error status, a
\* network failure, or a body that is not JSON (ValueError, caught nowhere)
NetReturn(t) ==
    /\ thr[t].pc = "net"
    /\ \E o \in Responses(thr[t].url, thr[t].key) :
          /\ ~Answered(o) => faultsLeft > 0
          /\ faultsLeft' = IF Answered(o) THEN faultsLeft ELSE faultsLeft - 1
          /\ LET r == [thr[t] EXCEPT
                         !.last = IF o.k = "http" /\ o.code = 429 THEN "429"
                                  ELSE o.k,
                         !.firstOk = IF thr[t].calls = 1 THEN o.k = "ok" ELSE @,
                         !.all429 = @ /\ o.k = "http" /\ o.code = 429]
             IN  Put(t, CASE o.k = "ok" ->
                               IF r.use_cache
                               THEN [r EXCEPT !.pc = "L120", !.data = o.body]
                               ELSE [r EXCEPT !.pc = "ret", !.data = o.body,
                                              !.ret = Ret(o.body)]
                          [] o.k = "http" -> OnHTTPError(r, o.code, now)
                          [] o.k = "transient" -> OnOSError(r, "URLError", now)
                          [] o.k = "badbody" ->
                               [r EXCEPT !.pc = "ret", !.ret = Raise("ValueError")])
    /\ UNCHANGED <<last_request_time, api_key, credVars, cacheDir, files,
                   server, opsLeft, histVars, lastOp>>

\* lines 120-123: mkdir (an OSError of it is raised into the try block of
\* _fetch), then open the file for writing, which empties it
CacheOpen(t) ==
    /\ thr[t].pc = "L120"
    /\ IF cacheDir = "blocked"
       THEN /\ Put(t, OnOSError([thr[t] EXCEPT !.ioerrs = @ + 1], "OSError", now))
            /\ UNCHANGED <<cacheDir, files>>
       ELSE /\ cacheDir' = IF cacheDir = "missing" THEN "ok" ELSE cacheDir
            /\ files' = [files EXCEPT ![CachePath(thr[t].url)] = FGarbled]
            /\ Put(t, [thr[t] EXCEPT !.pc = "L123", !.orphan = FALSE])
    /\ UNCHANGED <<last_request_time, api_key, credVars, server, opsLeft, faultsLeft,
                   histVars, lastOp>>

\* what the file f holds after the text e is written from offset 0 through
\* a handle opened before f got its present content: e when f is empty or
\* no longer than e, else e followed by the rest of f, which is not JSON
Overwritten(f, e) == IF f.st = "json" THEN {e, FGarbled} ELSE {e}

\* lines 123-125 and 152: write the entry (an OSError is swallowed), return.
\* The text goes to the file that was opened: one that clear_cache has
\* unlinked since is gone with its content.
CacheWrite(t) ==
    /\ thr[t].pc = "L123"
    /\ \E f \in Overwritten(files[CachePath(thr[t].url)],
                             Entry(now, thr[t].data)) :
          files' = IF cacheDir = "full" \/ thr[t].orphan THEN files
                   ELSE [files EXCEPT ![CachePath(thr[t].url)] = f]
    /\ Put(t, [thr[t] EXCEPT !.pc = "ret", !.ret = Ret(thr[t].data)])
    /\ UNCHANGED <<last_request_time, api_key, credVars, cacheDir, server,
                   opsLeft, faultsLeft, histVars, lastOp>>

\* lines 156 and 161: the backoff sleep returns; continue with the next attempt
BackoffWake(t) ==
    /\ thr[t].pc = "bsleep" /\ now >= thr[t].wake
    /\ Put(t, [thr[t] EXCEPT !.pc = "L137", !.attempt = @ + 1])
    /\ UNCHANGED <<last_request_time, api_key, credVars, cacheDir, files,
                   server, opsLeft, faultsLeft, histVars, lastOp>>

\* _fetch returns to a statistics query, which returns to its caller
Return(t) ==
    /\ thr[t].pc = "ret" /\ thr[t].op \in {"fetch", "reload"}
    /\ Put(t, [thr[t] EXCEPT !.pc = "done"])
    /\ UNCHANGED <<last_request_time, api_key, credVars, cacheDir, files,
                   server, opsLeft, faultsLeft, histVars, lastOp>>

\* the entry of u holds what the finished _fetch of frame r returned
WroteEntry(r) ==
    /\ r.use_cache /\ r.ret.kind = "val" /\ r.calls > 0
    /\ files[CachePath(r.url)] = Entry(now, r.ret.val)

\* the caller takes the result and is free again
Finish(t) ==
    /\ thr[t].pc = "done"
    /\ lastOp' = [op |-> thr[t].op, url |-> thr[t].url,
                  ok |-> thr[t].ret.kind = "val" /\ thr[t].ret.val # JNull,
                  wrote |-> WroteEntry(thr[t]), valid |-> {},
                  key |-> IF thr[t].op \in {"_get_api_key", "save_api_key"}
                          THEN thr[t].key ELSE None,
                  raised |-> thr[t].ret.kind = "raise"]
    /\ Put(t, IdleThread)
    /\ UNCHANGED <<last_request_time, api_key, credVars, cacheDir, files,
                   server, opsLeft, faultsLeft, histVars>>

----------------------------------------------------------------------------
(* get_projects (api.py:168-185) and get_components (api.py:196-205)       *)

ListOps == {"get_projects", "get_components"}

\* lines 171 and 198: the first page
ListUrl(op) == IF op = "get_projects" THEN "p1" ELSE "p2"

UrlTruthyNever(v) == FALSE
\* while url: (lines 173, 199)
UrlTruthy(v) == v.t = "str" /\ v.s # ""

\* lines 169-174: get_projects starts, with or without a progress callback
GetProjects(t) ==
    /\ thr[t].pc = "idle" /\ opsLeft > 0
    /\ \E cb \in BOOLEAN :
          Put(t, EnterFetch([IdleThread EXCEPT !.op = "get_projects",
                                               !.callback = cb,
                                               !.prev = lastOp],
                            ListUrl("get_projects"), TRUE))
    /\ opsLeft' = opsLeft - 1
    /\ UNCHANGED <<last_request_time, api_key, credVars, cacheDir, files,
                   server, faultsLeft, histVars, lastOp>>

\* lines 197-200: get_components starts
GetComponents(t) ==
    /\ thr[t].pc = "idle" /\ opsLeft > 0
    /\ Put(t, EnterFetch([IdleThread EXCEPT !.op = "get_components",
                                            !.prev = lastOp],
                         ListUrl("get_components"), TRUE))
    /\ opsLeft' = opsLeft - 1
    /\ UNCHANGED <<last_request_time, api_key, credVars, cacheDir, files,
                   server, faultsLeft, histVars, lastOp>>

TotalPagesFloor(total) == total \div 50

\* lines 181-182: (total + 49) // 50
TotalPages(total) == (total + 49) \div 50

AccumulatedDropped(r) == Ret(JList(<<>>))

\* lines 185 and 205: return all_projects, return all_components
Accumulated(r) == Ret(JList(r.all))

\* lines 174-185 and 200-205: _fetch is back with a page, with None, or with
\* an exception, which leaves the traversal
PageReturn(t) ==
    /\ thr[t].pc = "ret" /\ thr[t].op \in ListOps
    /\ LET r == thr[t]
           data == r.ret.val
       IN  IF r.ret.kind = "raise"
           THEN Put(t, [r EXCEPT !.pc = "done"])
           ELSE IF data = JNull
           THEN Put(t, [r EXCEPT !.pc = "done", !.ret = Accumulated(r)])
           ELSE LET results == Get(data, "results", JList(<<>>))
                    url == Get(data, "next", JNull)
                    total == Get(data, "count", JNum(0))
                    counted == r.op = "get_projects"
                    page == IF counted THEN r.page + 1 ELSE r.page
                    r2 == [r EXCEPT
                             !.all = @ \o results.l,
                             !.page = page,
                             !.pages = Append(@, r.url),
                             !.cbs = IF counted /\ r.callback
                                     THEN Append(@, <<page, TotalPages(total.n)>>)
                                     ELSE @]
                IN  IF UrlTruthy(url)
                    THEN Put(t, EnterFetch(r2, url.s, TRUE))
                    ELSE Put(t, [r2 EXCEPT !.pc = "done",
                                           !.ret = Accumulated(r2)])
    /\ UNCHANGED <<last_request_time, api_key, credVars, cacheDir, files,
                   server, opsLeft, faultsLeft, histVars, lastOp>>

ClearedNothing(fs) == fs

\* lines 212-215: clear_cache
ClearedFiles(fs) == [p \in Paths |-> FAbsent]

\* line 215 for the callers that hold a cache file open: unlink removes the
\* name, their handle stays on the file that is gone
Unlinked(th) ==
    [u \in Callers |-> IF th[u].pc = "L123" THEN [th[u] EXCEPT !.orphan = TRUE]
                       ELSE th[u]]

ClearCacheForgetsKey(t) ==
    /\ thr[t].pc = "idle" /\ opsLeft > 0
    /\ files' = IF cacheDir \in {"ok", "full"} THEN ClearedFiles(files) ELSE files
    /\ lastOp' = [NoOp EXCEPT !.op = "clear",
                    !.valid = {u \in Urls : ValidEntry(files[CachePath(u)], now)}]
    /\ opsLeft' = opsLeft - 1
    /\ api_key' = None
    /\ thr' = IF cacheDir \in {"ok", "full"} THEN Unlinked(thr) ELSE thr
    /\ UNCHANGED <<last_request_time, credVars, cacheDir, server,
                   faultsLeft, histVars>>

ClearCache(t) ==
    /\ thr[t].pc = "idle" /\ opsLeft > 0
    /\ files' = IF cacheDir \in {"ok", "full"} THEN ClearedFiles(files) ELSE files
    /\ lastOp' = [NoOp EXCEPT !.op = "clear",
                    !.valid = {u \in Urls : ValidEntry(files[CachePath(u)], now)}]
    /\ opsLeft' = opsLeft - 1
    /\ thr' = IF cacheDir \in {"ok", "full"} THEN Unlinked(thr) ELSE thr
    /\ UNCHANGED <<last_request_time, api_key, credVars, cacheDir, server,
                   faultsLeft, histVars>>

----------------------------------------------------------------------------
(* on_response of the API key dialog (main.py:651-658)                     *)

\* main.py:653-655 and api.py:64-67: the user saves the key "n"; save_api_key
\* memoizes it
OnResponse(t) ==
    /\ thr[t].pc = "idle" /\ opsLeft > 0
    /\ api_key' = Some(<<"n">>)
    /\ Put(t, [IdleThread EXCEPT !.op = "on_response", !.pc = "L69",
                                 !.key = Some(<<"n">>), !.prev = lastOp])
    /\ opsLeft' = opsLeft - 1
    /\ UNCHANGED <<last_request_time, credVars, cacheDir, files,
                   server, faultsLeft, histVars, lastOp>>

\* main.py:656: clear_cache()
HandlerClear(t) ==
    /\ thr[t].pc = "L656"
    /\ files' = IF cacheDir \in {"ok", "full"} THEN ClearedFiles(files) ELSE files
    /\ thr' = [(IF cacheDir \in {"ok", "full"} THEN Unlinked(thr) ELSE thr)
                 EXCEPT ![t].pc = "L657"]
    /\ UNCHANGED <<last_request_time, api_key, credVars, cacheDir, server,
                   opsLeft, faultsLeft, histVars, lastOp>>

\* main.py:657 and 432-459: _load_projects starts a worker and the handler
\* returns; the caller goes on as that worker, at a statistics query of it
HandlerReload(t) ==
    /\ thr[t].pc = "L657"
    /\ \E u \in StatUrls :
          Put(t, [EnterFetch(IdleThread, u, TRUE) EXCEPT !.op = "reload",
                                                          !.prev = lastOp])
    /\ UNCHANGED <<last_request_time, api_key, credVars, cacheDir, files,
                   server, opsLeft, faultsLeft, histVars, lastOp>>

----------------------------------------------------------------------------
(* Time.                                                                   *)

Blocked(t) == thr[t].pc \in {"idle", "net", "rsleep", "bsleep"}

Sleeping(t) == thr[t].pc \in {"rsleep", "bsleep"}

\* a cache file d units later: the _ts of an entry lies d units further back
AgedFile(f, d) ==
    IF f.st = "json" /\ f.v.t = "obj" /\ "_ts" \in DOMAIN f.v.o
       /\ f.v.o["_ts"].t = "num"
    THEN [f EXCEPT !.v.o["_ts"].n = Max(@ - d, now - CACHE_TTL)]
    ELSE f

\* d units pass
Pass(d) ==
    /\ last_request_time' = Max(last_request_time - d, now - RATE_DELAY)
    /\ lastStart' = IF lastStart < 0 THEN lastStart
                    ELSE Max(lastStart - d, now - RATE_DELAY)
    /\ files' = [p \in Paths |-> AgedFile(files[p], d)]
    /\ thr' = [t \in Callers |->
                 [thr[t] EXCEPT !.wake = Max(@ - d, now)]]
    /\ UNCHANGED <<api_key, credVars, cacheDir, server, opsLeft, gap, lastOp>>

\* a short pause while every caller blocks: latency of a call, a sleep that
\* overruns, a user who waits
Tick ==
    /\ faultsLeft > 0
    /\ \A t \in Callers : Blocked(t)
    /\ Pass(1)
    /\ faultsLeft' = faultsLeft - 1

\* every caller blocks and none is due: time runs to the first sleeper's hour
SleepOn ==
    /\ \A t \in Callers : Blocked(t)
    /\ \E t \in Callers : Sleeping(t)
    /\ \A t \in Callers : Sleeping(t) => thr[t].wake > now
    /\ \E t \in Callers :
          /\ Sleeping(t)
          /\ \A u \in Callers : Sleeping(u) => thr[t].wake <= thr[u].wake
          /\ Pass(thr[t].wake - now)
    /\ UNCHANGED faultsLeft

\* the age of a cache file's entry as line 112 computes it, CACHE_TTL for a
\* file that holds no timestamp
Age(f) ==
    IF f.st = "json" /\ f.v.t = "obj" /\ "_ts" \in DOMAIN f.v.o
       /\ f.v.o["_ts"].t = "num"
    THEN now - f.v.o["_ts"].n ELSE CACHE_TTL

\* nobody runs anything for one unit short of the TTL
LongIdle ==
    /\ \A t \in Callers : thr[t].pc = "idle"
    /\ Pass(CACHE_TTL - 1)
    /\ UNCHANGED faultsLeft

----------------------------------------------------------------------------
(* A single caller issuing statistics queries and clearing the cache.      *)

NoEnv == [WEBLATE_API_KEY |-> None, FEDORA_WEBLATE_KEY |-> None]

NoSecret == [avail |-> FALSE, v |-> None]

\* a server with nothing to list
NoPages == [u \in PageUrls |-> JNull]

\* states of the credential sources
EnvStates ==
    {[WEBLATE_API_KEY |-> a, FEDORA_WEBLATE_KEY |-> b] :
        a \in {None, Some(<<"e">>)}, b \in {None, Some(<<"f">>)}}

SecretStates ==
    {NoSecret, [avail |-> TRUE, v |-> None], [avail |-> TRUE, v |-> Some(<<"k">>)]}

CfgStates ==
    {CfgAbsent, CfgUnreadable, CfgBlocked, CfgText(<<"c", " ">>), CfgText(<<" ">>)}

\* something outside the process changes the sources while no caller runs;
\* remembers that this happened after a resolver had finished
SourcesChange ==
    /\ \A t \in Callers : thr[t].pc = "idle"
    /\ faultsLeft > 0
    /\ \E e \in EnvStates, s \in SecretStates, c \in CfgStates :
          /\ <<e, s, c>> # <<env, secret, cfg>>
          /\ env' = e /\ secret' = s /\ cfg' = c
    /\ faultsLeft' = faultsLeft - 1
    /\ lastOp' = IF lastOp.op \in {"_get_api_key", "changed"}
                  THEN [lastOp EXCEPT !.op = "changed"] ELSE lastOp
    /\ UNCHANGED <<last_request_time, api_key, cacheDir, files, server, thr,
                   opsLeft, histVars>>

\* the body of one page of a list endpoint
Page(results, next, count) ==
    JObj([results |-> JList(results), next |-> next, count |-> JNum(count)])

\* the entries a page lists
Items(u) ==
    CASE u = "p1" -> <<JStr("a"), JStr("b")>> [] u = "p2" -> <<JStr("c")>>
      [] u = "p3" -> <<JStr("d")>>

\* the next links of the pages: chains that end, of one to three pages
Chains ==
    {nx \in [PageUrls -> {JNull, JStr("p2"), JStr("p3")}] :
        /\ nx["p2"] # JStr("p2")
        /\ nx["p3"] = JNull}

\* the counts a page may report
Counts == {0, 50, 51}

Servers ==
    {[u \in PageUrls |-> Page(Items(u), nx[u], c[u])] :
        nx \in Chains, c \in [PageUrls -> Counts]}

FetchStep(t) ==
    \/ CacheExists(t) \/ CacheRead(t) \/ LoopHead(t) \/ RateWake(t)
    \/ KeyMemo(t) \/ KeyLookup(t) \/ KeyStore(t) \/ NetStart(t) \/ NetReturn(t)
    \/ CacheOpen(t) \/ CacheWrite(t) \/ BackoffWake(t)

Init ==
    /\ last_request_time = now - RATE_DELAY
    /\ api_key = None
    /\ env \in {NoEnv, [NoEnv EXCEPT !.WEBLATE_API_KEY = Some(<<"e">>)]}
    /\ secret = NoSecret
    /\ cfg = CfgAbsent
    /\ cacheDir = "missing"
    /\ files = [p \in Paths |-> FAbsent]
    /\ server = NoPages
    /\ thr = [t \in Callers |-> IdleThread]
    /\ opsLeft = MaxOps
    /\ faultsLeft = MaxFaults
    /\ lastStart = -1
    /\ gap = -1
    /\ lastOp = NoOp

Next ==
    \/ \E t \in Solo : Fetch(t) \/ FetchStep(t) \/ Return(t) \/ Finish(t)
                       \/ ClearCache(t)
    \/ Tick \/ SleepOn \/ LongIdle

Spec == Init /\ [][Next]_vars

----------------------------------------------------------------------------
(* Two operations against a network that may fail every attempt of one.    *)

InitRetry ==
    /\ last_request_time = now - RATE_DELAY
    /\ api_key = None
    /\ env \in {NoEnv, [NoEnv EXCEPT !.WEBLATE_API_KEY = Some(<<"e">>)]}
    /\ secret = NoSecret
    /\ cfg = CfgAbsent
    /\ cacheDir \in {"missing", "ok"}
    /\ files = [p \in Paths |-> FAbsent]
    /\ server = NoPages
    /\ thr = [t \in Callers |-> IdleThread]
    /\ opsLeft = 2
    /\ faultsLeft = MAX_RETRIES + MaxFaults
    /\ lastStart = -1
    /\ gap = -1
    /\ lastOp = NoOp

SpecRetry == InitRetry /\ [][Next]_vars

----------------------------------------------------------------------------
(* Two worker threads of the window share the module's state: no lock      *)
(* guards _last_request_time, so their steps interleave freely.            *)

InitConc ==
    /\ last_request_time = now - RATE_DELAY
    /\ api_key = None
    /\ env = NoEnv
    /\ secret = NoSecret
    /\ cfg = CfgAbsent
    /\ cacheDir = "missing"
    /\ files = [p \in Paths |-> FAbsent]
    /\ server = NoPages
    /\ thr = [t \in Callers |-> IdleThread]
    /\ opsLeft = 2
    /\ faultsLeft = 1
    /\ lastStart = -1
    /\ gap = -1
    /\ lastOp = NoOp

NextConc ==
    \/ \E t \in Callers : Fetch(t) \/ FetchStep(t) \/ Return(t) \/ Finish(t)
                          \/ ClearCache(t)
    \/ Tick \/ SleepOn \/ LongIdle

SpecConc == InitConc /\ [][NextConc]_vars

----------------------------------------------------------------------------
(* One caller asks for the key again and again while the environment       *)
(* variables go away and the process is restarted.                         *)

InitCred ==
    /\ last_request_time = now - RATE_DELAY
    /\ api_key = None
    /\ env \in {NoEnv, [NoEnv EXCEPT !.WEBLATE_API_KEY = Some(<<"e">>)],
                [NoEnv EXCEPT !.FEDORA_WEBLATE_KEY = Some(<<"f">>)]}
    /\ secret \in {NoSecret, [avail |-> TRUE, v |-> Some(<<"k">>)]}
    /\ cfg \in {CfgAbsent, CfgText(<<"c", " ">>)}
    /\ cacheDir = "missing"
    /\ files = [p \in Paths |-> FAbsent]
    /\ server = NoPages
    /\ thr = [t \in Callers |-> IdleThread]
    /\ opsLeft = MaxOps
    /\ faultsLeft = 0
    /\ lastStart = -1
    /\ gap = -1
    /\ lastOp = NoOp

NextCred ==
    \/ \E t \in Solo : GetApiKey(t) \/ KeyMemo(t) \/ KeyLookup(t)
                       \/ KeyStore(t) \/ KeyReturn(t) \/ Finish(t)
    \/ ClearEnv \/ Restart

SpecCred == InitCred /\ [][NextCred]_vars

----------------------------------------------------------------------------
(* One caller queries a URL whose cache file something else has damaged.   *)

\* contents of a cache file that _write_cache did not leave there
CorruptFiles ==
    {FUnreadable, FUndecodable, FGarbled, FJson(JList(<<>>)),
     FJson(JObj([_payload |-> JNum(1)])),
     FJson(JObj([_ts |-> JStr("x"), _payload |-> JNum(1)]))}

InitCorrupt ==
    /\ last_request_time = now - RATE_DELAY
    /\ api_key = None
    /\ env = NoEnv
    /\ secret = NoSecret
    /\ cfg = CfgAbsent
    /\ cacheDir = "ok"
    /\ \E f \in CorruptFiles :
          files = [p \in Paths |-> IF p = CachePath("s1") THEN f ELSE FAbsent]
    /\ server = NoPages
    /\ thr = [t \in Callers |-> IdleThread]
    /\ opsLeft = 2
    /\ faultsLeft = 1
    /\ lastStart = -1
    /\ gap = -1
    /\ lastOp = NoOp

SpecCorrupt == InitCorrupt /\ [][Next]_vars

----------------------------------------------------------------------------
(* One caller queries while the cache directory cannot be created or       *)
(* cannot take another file.                                               *)

InitCacheFail ==
    /\ last_request_time = now - RATE_DELAY
    /\ api_key = None
    /\ env = NoEnv
    /\ secret = NoSecret
    /\ cfg = CfgAbsent
    /\ cacheDir \in {"blocked", "full"}
    /\ files = [p \in Paths |-> FAbsent]
    /\ server = NoPages
    /\ thr = [t \in Callers |-> IdleThread]
    /\ opsLeft = 2
    /\ faultsLeft = 1
    /\ lastStart = -1
    /\ gap = -1
    /\ lastOp = NoOp

SpecCacheFail == InitCacheFail /\ [][Next]_vars

----------------------------------------------------------------------------
(* One caller queries and asks for the key while the secret store is       *)
(* unavailable or empty and the config file is missing or unreadable.       *)

InitKeyFail ==
    /\ last_request_time = now - RATE_DELAY
    /\ api_key = None
    /\ env = NoEnv
    /\ secret \in {NoSecret, [avail |-> TRUE, v |-> None]}
    /\ cfg \in {CfgAbsent, CfgUnreadable}
    /\ cacheDir = "missing"
    /\ files = [p \in Paths |-> FAbsent]
    /\ server = NoPages
    /\ thr = [t \in Callers |-> IdleThread]
    /\ opsLeft = 2
    /\ faultsLeft = 1
    /\ lastStart = -1
    /\ gap = -1
    /\ lastOp = NoOp

NextKeyFail ==
    \/ \E t \in Solo : Fetch(t) \/ FetchStep(t) \/ Return(t) \/ Finish(t)
                       \/ GetApiKey(t) \/ KeyReturn(t)
    \/ Tick \/ SleepOn

SpecKeyFail == InitKeyFail /\ [][NextKeyFail]_vars

----------------------------------------------------------------------------
(* One caller asks for the key and saves keys while the sources change     *)
(* under it.                                                               *)

InitKeys ==
    /\ last_request_time = now - RATE_DELAY
    /\ api_key = None
    /\ env \in EnvStates
    /\ secret \in SecretStates
    /\ cfg \in CfgStates
    /\ cacheDir = "missing"
    /\ files = [p \in Paths |-> FAbsent]
    /\ server = NoPages
    /\ thr = [t \in Callers |-> IdleThread]
    /\ opsLeft = MaxOps
    /\ faultsLeft = 1
    /\ lastStart = -1
    /\ gap = -1
    /\ lastOp = NoOp

NextKeys ==
    \/ \E t \in Solo : GetApiKey(t) \/ KeyMemo(t) \/ KeyLookup(t)
                       \/ KeyStore(t) \/ KeyReturn(t) \/ SaveMemo(t)
                       \/ SaveStore(t) \/ Finish(t)
    \/ SourcesChange

SpecKeys == InitKeys /\ [][NextKeys]_vars

----------------------------------------------------------------------------
(* A resolver on one thread (the worker of main.py:432-459, inside _fetch) *)
(* and save_api_key on another (on_response, main.py:651-658).             *)

InitKeyRace ==
    /\ last_request_time = now - RATE_DELAY
    /\ api_key = None
    /\ env = NoEnv
    /\ secret \in SecretStates
    /\ cfg \in CfgStates
    /\ cacheDir = "missing"
    /\ files = [p \in Paths |-> FAbsent]
    /\ server = NoPages
    /\ thr = [t \in Callers |-> IdleThread]
    /\ opsLeft = 2
    /\ faultsLeft = 0
    /\ lastStart = -1
    /\ gap = -1
    /\ lastOp = NoOp

NextKeyRace ==
    \E t \in Callers : GetApiKey(t) \/ KeyMemo(t) \/ KeyLookup(t)
                       \/ KeyStore(t) \/ KeyReturn(t) \/ SaveMemo(t)
                       \/ SaveStore(t) \/ Finish(t)

SpecKeyRace == InitKeyRace /\ [][NextKeyRace]_vars

----------------------------------------------------------------------------
(* The key dialog is answered while a worker may be inside a fetch.        *)

InitReload ==
    /\ last_request_time = now - RATE_DELAY
    /\ api_key = None
    /\ env = NoEnv
    /\ secret = NoSecret
    /\ cfg = CfgAbsent
    /\ cacheDir = "missing"
    /\ files = [p \in Paths |-> FAbsent]
    /\ server = NoPages
    /\ thr = [t \in Callers |-> IdleThread]
    /\ opsLeft = 2
    /\ faultsLeft = 1
    /\ lastStart = -1
    /\ gap = -1
    /\ lastOp = NoOp

NextReload ==
    \/ \E t \in Callers : Fetch(t) \/ FetchStep(t) \/ Return(t) \/ Finish(t)
                          \/ OnResponse(t) \/ SaveStore(t)
                          \/ HandlerClear(t) \/ HandlerReload(t)
    \/ Tick \/ SleepOn

SpecReload == InitReload /\ [][NextReload]_vars

----------------------------------------------------------------------------
(* One caller walks the list endpoints of a server whose pages are chained *)
(* by their next links.                                                    *)

InitPages ==
    /\ last_request_time = now - RATE_DELAY
    /\ api_key = None
    /\ env = NoEnv
    /\ secret = NoSecret
    /\ cfg = CfgAbsent
    /\ cacheDir = "missing"
    /\ files = [p \in Paths |-> FAbsent]
    /\ server \in Servers
    /\ thr = [t \in Callers |-> IdleThread]
    /\ opsLeft = 2
    /\ faultsLeft = 1
    /\ lastStart = -1
    /\ gap = -1
    /\ lastOp = NoOp

NextPages ==
    \/ \E t \in Solo : GetProjects(t) \/ GetComponents(t) \/ FetchStep(t)
                       \/ PageReturn(t) \/ Finish(t)
    \/ Tick \/ SleepOn

SpecPages == InitPages /\ [][NextPages]_vars

\* a caller that is running goes on running (each traversal runs in a thread
\* of its own, main.py:432-459), and its sleeps end
SpecPagesFair ==
    /\ SpecPages
    /\ WF_vars(\E t \in Solo : FetchStep(t) \/ PageReturn(t))
    /\ WF_vars(SleepOn)

----------------------------------------------------------------------------
(* Traversals against a network that may fail every attempt of one page.   *)

\* the chains of pages, every page reporting a count of 50
PlainServers ==
    {[u \in PageUrls |-> Page(Items(u), nx[u], 50)] : nx \in Chains}

InitPagesFail ==
    /\ last_request_time = now - RATE_DELAY
    /\ api_key = None
    /\ env = NoEnv
    /\ secret = NoSecret
    /\ cfg = CfgAbsent
    /\ cacheDir = "missing"
    /\ files = [p \in Paths |-> FAbsent]
    /\ server \in PlainServers
    /\ thr = [t \in Callers |-> IdleThread]
    /\ opsLeft = 2
    /\ faultsLeft = MAX_RETRIES
    /\ lastStart = -1
    /\ gap = -1
    /\ lastOp = NoOp

SpecPagesFail == InitPagesFail /\ [][NextPages]_vars

----------------------------------------------------------------------------
(* Claims.                                                                 *)

\* a finished statistics query of caller t
Done(t) == thr[t].pc = "done" /\ thr[t].op = "fetch"

\* the query of caller t directly follows a fetch of the same URL that
\* returned a value and wrote its cache entry
FollowsCachedFetch(t) ==
    /\ Done(t) /\ thr[t].use_cache
    /\ thr[t].prev.op = "fetch" /\ thr[t].prev.url = thr[t].url
    /\ thr[t].prev.ok /\ thr[t].prev.wrote

\* C1: a fetch that follows a successful cached fetch of the same URL makes no
\* network call and returns a value while the entry it reads is younger than
\* CACHE_TTL; once the entry is CACHE_TTL old or older it is not served from
\* the cache, it makes a network call, and if that first call is answered
\* with a body it makes no other.
C1_FetchAfterCachedFetch ==
    \A t \in Callers :
        FollowsCachedFetch(t) =>
            /\ thr[t].seen.st = "json"
            /\ Age(thr[t].seen) < CACHE_TTL =>
                  /\ thr[t].calls = 0 /\ thr[t].hit
                  /\ thr[t].ret.kind = "val" /\ thr[t].ret.val # JNull
            /\ Age(thr[t].seen) >= CACHE_TTL =>
                  /\ ~thr[t].hit
                  /\ thr[t].ioerrs = 0 => thr[t].calls >= 1
                  /\ thr[t].firstOk => thr[t].calls = 1

\* the entry has just reached CACHE_TTL and the fetch made its one call
C1_Witness ==
    \E t \in Callers :
        /\ FollowsCachedFetch(t)
        /\ Age(thr[t].seen) = CACHE_TTL /\ thr[t].firstOk /\ thr[t].calls = 1

\* C2: with a single caller, a network call never starts less than
\* RATE_DELAY after the start of the call before it.
C2_MinimumGap == gap = -1 \/ gap >= RATE_DELAY

\* a call started right after the rate limiter made the caller sleep, in a
\* fetch that follows a failed call of an earlier operation
C2_Witness ==
    \E t \in Callers :
        /\ thr[t].pc = "net" /\ thr[t].rsleeps # <<>> /\ gap = RATE_DELAY
        /\ thr[t].prev.op = "fetch" /\ ~thr[t].prev.ok

\* the query of caller t directly follows a clear_cache that found a valid
\* entry for its URL
FollowsClear(t) ==
    /\ Done(t) /\ thr[t].use_cache
    /\ thr[t].prev.op = "clear" /\ thr[t].url \in thr[t].prev.valid

\* C9: once clear_cache has returned no cache file is left, and a fetch of a
\* URL that had a valid entry before the clear is not served from the cache:
\* it makes a network call, and if that first call is answered with a body it
\* makes no other.
C9_FetchAfterClear ==
    /\ lastOp.op = "clear" /\ (\A t \in Callers : thr[t].pc = "idle") =>
          \A p \in Paths : files[p] = FAbsent
    /\ \A t \in Callers :
          FollowsClear(t) =>
              /\ ~thr[t].hit
              /\ thr[t].ioerrs = 0 => thr[t].calls >= 1
              /\ thr[t].firstOk => thr[t].calls = 1

\* a fetch after a clear that removed its valid entry made its one call and
\* returned the fresh value
C9_Witness ==
    \E t \in Callers :
        /\ FollowsClear(t) /\ thr[t].firstOk /\ thr[t].calls = 1
        /\ thr[t].ret.kind = "val" /\ thr[t].ret.val # JNull

\* the backoff sleeps asked for so far are RATE_DELAY * 2^0, 2^1, ...
Doubling(b) == \A k \in 1..Len(b) : b[k] = RATE_DELAY * Pow2(k - 1)

\* C4: in a fetch whose every attempt was answered 429 the backoff after the
\* attempt with index k is RATE_DELAY * 2^k, one backoff per call; when the
\* fetch ends it has made MAX_RETRIES calls and returns None without raising.
C4_AllRateLimited ==
    \A t \in Callers :
        thr[t].calls > 0 /\ thr[t].all429 /\ thr[t].ioerrs = 0 =>
            /\ Doubling(thr[t].backoffs)
            /\ \A k \in 2..Len(thr[t].backoffs) :
                  thr[t].backoffs[k] > thr[t].backoffs[k - 1]
            /\ thr[t].pc = "bsleep" =>
                  /\ Len(thr[t].backoffs) = thr[t].calls
                  /\ thr[t].wake >= now
            /\ thr[t].pc \in {"ret", "done"} =>
                  /\ thr[t].calls = MAX_RETRIES
                  /\ Len(thr[t].backoffs) = MAX_RETRIES
                  /\ thr[t].ret = RetNone

\* a fetch answered 429 five times has returned None
C4_Witness ==
    \E t \in Callers :
        /\ Done(t) /\ thr[t].all429 /\ thr[t].calls = MAX_RETRIES
        /\ thr[t].ret = RetNone

\* C5: when the latest call of a fetch was answered with an HTTP error
\* status other than 429 the fetch raises HTTPError at once: no backoff
\* sleep follows that attempt, no further call starts, and if it was the
\* first attempt the fetch made exactly one call.
C5_OtherStatusRaises ==
    \A t \in Callers :
        thr[t].last = "http" =>
            /\ thr[t].pc \in {"ret", "done"}
            /\ thr[t].ret = Raise("HTTPError")
            /\ Len(thr[t].backoffs) = thr[t].attempt
            /\ thr[t].attempt = 0 => thr[t].calls = 1

\* a first attempt answered with such a status has raised
C5_Witness ==
    \E t \in Callers :
        /\ Done(t) /\ thr[t].last = "http" /\ thr[t].attempt = 0
        /\ thr[t].calls = 1 /\ thr[t].ret.kind = "raise"

\* C6: when the latest call of a fetch failed with a network failure: before
\* the final attempt the fetch sleeps RATE_DELAY * 2^attempt and goes on to
\* another attempt; on the final attempt it raises the failure and does not
\* return None.
C6_TransientFailure ==
    \A t \in Callers :
        thr[t].last = "transient" =>
            /\ thr[t].pc = "bsleep" =>
                  /\ thr[t].attempt < MAX_RETRIES - 1
                  /\ Len(thr[t].backoffs) = thr[t].attempt + 1
                  /\ thr[t].backoffs[Len(thr[t].backoffs)] =
                        RATE_DELAY * Pow2(thr[t].attempt)
            /\ thr[t].pc \in {"ret", "done"} =>
                  /\ thr[t].attempt = MAX_RETRIES - 1
                  /\ thr[t].ret = Raise("URLError")
            /\ thr[t].pc \notin {"bsleep", "ret", "done"} =>
                  /\ thr[t].attempt \in 1..(MAX_RETRIES - 1)
                  /\ Len(thr[t].backoffs) = thr[t].attempt

\* the final attempt failed in the network and the fetch raised
C6_Witness ==
    \E t \in Callers :
        /\ Done(t) /\ thr[t].last = "transient"
        /\ thr[t].attempt = MAX_RETRIES - 1 /\ thr[t].ret = Raise("URLError")

\* C3: with two callers in fetch at once every network call still starts at
\* least RATE_DELAY after the start of the call before it, whichever caller
\* made either of them.
C3_ConcurrentMinimumGap ==
    lastStart >= 0 /\ gap >= 0 => gap >= RATE_DELAY

\* get_projects or get_components of caller t is over
Walked(t) == thr[t].pc = "done" /\ thr[t].op \in ListOps

\* the pages a traversal from u meets, at most n of them
RECURSIVE ChainFrom(_, _)
ChainFrom(u, n) ==
    IF n = 0 THEN <<>>
    ELSE <<u>> \o (IF server[u].o.next = JNull THEN <<>>
                   ELSE ChainFrom(server[u].o.next.s, n - 1))

\* the results of the pages us, one after the other
RECURSIVE Concat(_)
Concat(us) ==
    IF us = <<>> THEN <<>> ELSE server[Head(us)].o.results.l \o Concat(Tail(us))

\* the least k with 50 * k >= c
CeilDiv50(c) == CHOOSE k \in 0..c : 50 * k >= c /\ 50 * (k - 1) < c

\* C7: a traversal all of whose page fetches returned a page returns the
\* concatenation of the results of the chain's pages in page order;
\* get_projects has called the callback once per page, the i-th time with
\* (i, ceil(count_i / 50)).
C7_Pagination ==
    \A t \in Callers :
        /\ Walked(t) /\ thr[t].ret.kind = "val"
        /\ Len(thr[t].pages) = thr[t].fetches
        => LET us == ChainFrom(ListUrl(thr[t].op), Cardinality(PageUrls))
           IN  /\ thr[t].pages = us
               /\ thr[t].ret = Ret(JList(Concat(us)))
               /\ thr[t].op = "get_projects" /\ thr[t].callback =>
                     thr[t].cbs =
                        [i \in 1..Len(us) |->
                            <<i, CeilDiv50(server[us[i]].o.count.n)>>]
               /\ ~(thr[t].op = "get_projects" /\ thr[t].callback) =>
                     thr[t].cbs = <<>>

\* get_projects has walked three pages, the second reporting 51 entries
C7_Witness ==
    \E t \in Callers :
        /\ Walked(t) /\ thr[t].op = "get_projects" /\ thr[t].callback
        /\ thr[t].fetches = 3 /\ Len(thr[t].pages) = 3
        /\ thr[t].ret = Ret(JList(<<JStr("a"), JStr("b"), JStr("c"), JStr("d")>>))
        /\ thr[t].cbs[2] = <<2, 2>>

\* get_components has walked two pages
C7_WitnessComponents ==
    \E t \in Callers :
        /\ Walked(t) /\ thr[t].op = "get_components"
        /\ thr[t].ret = Ret(JList(<<JStr("c"), JStr("d")>>))

\* _get_api_key of caller t is over
Resolved(t) == thr[t].pc = "done" /\ thr[t].op = "_get_api_key"

\* the token an environment variable holds, if one does
EnvToken ==
    IF Truthy(env.WEBLATE_API_KEY) THEN env.WEBLATE_API_KEY
    ELSE env.FEDORA_WEBLATE_KEY

\* the config file holds a token
CfgHolds == cfg.st = "text" /\ Strip(cfg.text) # <<>>

\* C8 as stated: with a token in an environment variable and in the config
\* file the resolver yields the variable's value, and the resolver called
\* next after the variable was cleared yields the config file's value.
C8_Precedence ==
    \A t \in Callers :
        Resolved(t) /\ CfgHolds =>
            /\ Truthy(EnvToken) => thr[t].key = EnvToken
            /\ thr[t].prev.op = "unsetenv" /\ thr[t].prev.ok =>
                  thr[t].key = Some(Strip(cfg.text))

\* C8, amended: with a token in an environment variable and in the config
\* file a resolver that starts from the not-yet-resolved state yields the
\* variable's value; the resolver called next in the same process after the
\* variable was cleared yields the memoized value again; a resolver that
\* starts from the not-yet-resolved state with no token in a variable and
\* none in the secret store yields the config file's stripped value.
C8_PrecedenceFromUnresolved ==
    \A t \in Callers :
        Resolved(t) /\ CfgHolds =>
            /\ thr[t].queried # <<>> /\ Truthy(EnvToken) =>
                  thr[t].key = EnvToken
            /\ thr[t].prev.op = "unsetenv" /\ thr[t].prev.ok =>
                  /\ thr[t].key = thr[t].prev.key
                  /\ thr[t].queried = <<>>
            /\ /\ thr[t].queried # <<>> /\ ~Truthy(EnvToken)
               /\ ~(secret.avail /\ Truthy(secret.v))
               => thr[t].key = Some(Strip(cfg.text))

\* the variable's token was handed out, the variable cleared, and the next
\* resolver in the same process handed out the variable's token again
C8_Witness ==
    \E t \in Callers :
        /\ Resolved(t) /\ CfgHolds
        /\ thr[t].prev.op = "unsetenv" /\ thr[t].prev.ok
        /\ thr[t].key \in {Some(<<"e">>), Some(<<"f">>)}

\* in a new process, after the variable was cleared, the config file's
\* token is handed out
C8_WitnessFallback ==
    \E t \in Callers :
        /\ Resolved(t) /\ thr[t].prev.op = "restart"
        /\ thr[t].prev.key # None /\ ~Truthy(EnvToken)
        /\ thr[t].key = Some(<<"c">>)

\* C10: a fetch that found a damaged cache file goes on as after a miss: it
\* returns nothing from the file, the read raises nothing to the caller,
\* and the fetch is over only after a network call.
C10_CorruptIsMiss ==
    \A t \in Callers :
        thr[t].op = "fetch" /\ thr[t].seen \in CorruptFiles =>
            /\ ~thr[t].hit
            /\ thr[t].ret.exc \notin
                  {"UnicodeDecodeError", "AttributeError", "TypeError"}
            /\ thr[t].pc \in {"ret", "done"} => thr[t].calls >= 1

\* C11: once the network call of a caching fetch was answered with a body,
\* the fetch goes on to write the entry and return that body: it sleeps no
\* backoff, starts no further attempt and raises nothing, whether or not the
\* entry could be written.
C11_WriteFailureSwallowed ==
    \A t \in Callers :
        thr[t].op = "fetch" /\ thr[t].use_cache /\ thr[t].last = "ok" =>
            /\ thr[t].pc \in {"L120", "L123", "ret", "done"}
            /\ thr[t].ioerrs = 0
            /\ thr[t].pc \in {"ret", "done"} => thr[t].ret = Ret(thr[t].data)

\* C12: a fetch or a resolver that has started no network call yet sleeps
\* no backoff and raises nothing, whatever state the secret store and the
\* config file are in; the resolver then returns None.
C12_SourceFailureDegrades ==
    \A t \in Callers :
        /\ thr[t].op = "fetch" /\ thr[t].calls = 0 =>
              /\ thr[t].pc # "bsleep"
              /\ thr[t].ret.kind # "raise"
              /\ thr[t].backoffs = <<>>
        /\ thr[t].op = "_get_api_key" /\ thr[t].pc = "done" =>
              thr[t].ret = RetNone

\* C13: a resolver that runs after an earlier resolver of the same process
\* returned, with no save in between, returns what that one returned and
\* queries no source, whatever the sources hold by then.
C13_MemoizedOutcome ==
    \A t \in Callers :
        /\ Resolved(t) /\ thr[t].prev.op \in {"_get_api_key", "changed"}
        /\ ~thr[t].prev.raised
        => /\ thr[t].ret.kind = "val"
           /\ thr[t].key = thr[t].prev.key
           /\ thr[t].queried = <<>>

\* absent was returned, a token then appeared in the environment, and the
\* next resolver returned absent again
C13_Witness ==
    \E t \in Callers :
        /\ Resolved(t) /\ thr[t].prev.op = "changed" /\ ~thr[t].prev.raised
        /\ thr[t].prev.key = None /\ Truthy(EnvToken)
        /\ thr[t].ret = RetNone

\* save_api_key of caller t is over
Saved(t) == thr[t].pc = "done" /\ thr[t].op = "save_api_key"

\* C14: when save_api_key(token) with a non-empty token is over, with True
\* or with an error, the memoized value is token, and the resolver that runs
\* next returns token, so has_api_key() is true.
C14_SaveMemoizes ==
    \A t \in Callers :
        /\ Saved(t) /\ thr[t].key.v # <<>> => api_key = thr[t].key
        /\ /\ Resolved(t) /\ thr[t].prev.op = "save_api_key"
           /\ thr[t].prev.key.v # <<>>
           => /\ thr[t].key = thr[t].prev.key
              /\ thr[t].ret = Ret(JStr(thr[t].prev.key.v))

\* both stores failed, save_api_key raised, and the next resolver returned
\* the token
C14_Witness ==
    \E t \in Callers :
        /\ Resolved(t) /\ thr[t].prev.op = "save_api_key" /\ thr[t].prev.raised
        /\ thr[t].key = Some(<<"n">>)

\* C15: a resolver that starts from the not-yet-resolved state returns the
\* first non-empty value of: first variable, second variable, secret store,
\* stripped content of a readable config file; it queries no source after
\* the one that won, and returns None when none of them has a value.
C15_FirstNonEmpty ==
    \A t \in Callers :
        Resolved(t) /\ thr[t].queried # <<>> =>
            IF Truthy(env.WEBLATE_API_KEY)
            THEN thr[t].key = env.WEBLATE_API_KEY /\ thr[t].queried = <<"env">>
            ELSE IF Truthy(env.FEDORA_WEBLATE_KEY)
            THEN thr[t].key = env.FEDORA_WEBLATE_KEY /\ thr[t].queried = <<"env">>
            ELSE IF secret.avail /\ Truthy(secret.v)
            THEN thr[t].key = secret.v /\ thr[t].queried = <<"env", "secret">>
            ELSE cfg.st # "unreadable" =>
                   /\ thr[t].queried = <<"env", "secret", "file">>
                   /\ IF CfgHolds THEN thr[t].key = Some(Strip(cfg.text))
                      ELSE thr[t].key = None /\ thr[t].ret = RetNone

\* both variables are set and the first one won
C15_Witness ==
    \E t \in Callers :
        /\ Resolved(t) /\ thr[t].queried = <<"env">>
        /\ Truthy(env.WEBLATE_API_KEY) /\ Truthy(env.FEDORA_WEBLATE_KEY)
        /\ thr[t].key = Some(<<"e">>)

\* only a blank config file is there and the resolver returned None
C15_WitnessBlank ==
    \E t \in Callers :
        /\ Resolved(t) /\ thr[t].queried = <<"env", "secret", "file">>
        /\ cfg = CfgText(<<" ">>) /\ thr[t].ret = RetNone

\* C17: save_api_key tries the secret store first; it writes the config
\* file only when the store failed and leaves it as it was when the store
\* took the key; whenever it returns, it returns True.
C17_SaveOrder ==
    [][\A t \in Callers :
          SaveStore(t) =>
              /\ secret.avail =>
                    /\ cfg' = cfg /\ secret'.v = thr[t].key
                    /\ thr'[t].queried = <<"secret">>
              /\ ~secret.avail =>
                    /\ secret' = secret
                    /\ thr'[t].queried = <<"secret", "file">>
                    /\ thr'[t].ret.kind = "val" => cfg' = CfgText(thr[t].key.v)
              /\ thr'[t].ret.kind = "val" => thr'[t].ret = Ret(JTrue)]_vars

\* the store took the key and the config file holds something else
C17_Witness ==
    \E t \in Callers :
        /\ Saved(t) /\ thr[t].queried = <<"secret">> /\ thr[t].ret = Ret(JTrue)
        /\ secret.v = thr[t].key /\ cfg = CfgText(<<"c", " ">>)

\* the store failed and the config file took the key
C17_WitnessFallback ==
    \E t \in Callers :
        /\ Saved(t) /\ thr[t].queried = <<"secret", "file">>
        /\ thr[t].ret = Ret(JTrue) /\ cfg = CfgText(<<"n">>)

\* C16: a step of clear_cache leaves no cache file behind and changes
\* neither the memoized key nor the rate limiter's last-request instant.
C16_ClearFrame ==
    [][\A t \in Callers :
          ClearCache(t) =>
              /\ \A p \in Paths : files'[p] = FAbsent
              /\ api_key' = api_key
              /\ last_request_time' = last_request_time]_vars

\* the cache was cleared right after a call: an entry is gone, the key and
\* the instant of the call are still there
C16_Witness ==
    /\ lastOp.op = "clear" /\ lastOp.valid # {}
    /\ \A p \in Paths : files[p] = FAbsent
    /\ api_key = Some(<<"e">>) /\ last_request_time = now

\* the cache was cleared before the key was ever looked up
C16_WitnessUnresolved == lastOp.op = "clear" /\ api_key = None

\* the cache was cleared after the lookup had found no key
C16_WitnessAbsent == lastOp.op = "clear" /\ api_key = Some(<<>>)

\* C18: a fetch that was not served from the cache makes at most
\* MAX_RETRIES network calls and ends in exactly one of: the body of its last
\* call returned, an error raised, or None after MAX_RETRIES calls the last
\* of which was answered 429; a network failure on the final attempt ends
\* in an error.
C18_ThreeOutcomes ==
    \A t \in Callers :
        thr[t].op = "fetch" =>
            /\ thr[t].calls <= MAX_RETRIES
            /\ thr[t].pc \in {"ret", "done"} /\ ~thr[t].hit =>
                  LET success == /\ thr[t].ret = Ret(thr[t].data)
                                 /\ thr[t].last = "ok"
                      terminal == /\ thr[t].ret.kind = "raise"
                                  /\ thr[t].last \in {"http", "transient", "badbody"}
                      exhausted == /\ thr[t].ret = RetNone
                                   /\ thr[t].last = "429"
                                   /\ thr[t].calls = MAX_RETRIES
                  IN  /\ success \/ terminal \/ exhausted
                      /\ ~(success /\ terminal) /\ ~(success /\ exhausted)
                      /\ ~(terminal /\ exhausted)
                      /\ thr[t].last = "transient" => terminal

\* None came back after transient failures and a 429 on the final attempt
C18_Witness ==
    \E t \in Callers :
        /\ Done(t) /\ thr[t].ret = RetNone /\ thr[t].last = "429"
        /\ ~thr[t].all429 /\ thr[t].calls = MAX_RETRIES

\* C19: a caching fetch that read a valid entry returns its payload at once:
\* no network call, no rate-limit sleep, no backoff, no look at the key; and
\* no step of a fetch served from the cache changes the last-request
\* instant or the memoized key.
C19_HitTouchesNothing ==
    /\ [](\A t \in Callers :
            thr[t].op = "fetch" /\ ValidEntry(thr[t].seen, now) =>
                /\ thr[t].hit /\ thr[t].pc \in {"ret", "done"}
                /\ thr[t].ret = Ret(thr[t].seen.v.o["_payload"])
                /\ thr[t].calls = 0 /\ thr[t].rsleeps = <<>>
                /\ thr[t].backoffs = <<>>
                /\ thr[t].queried = <<>> /\ thr[t].key = None)
    /\ [][\A t \in Callers :
            thr[t].hit \/ thr'[t].hit =>
                UNCHANGED <<last_request_time, api_key, lastStart>>]_vars

\* a hit less than RATE_DELAY after a call, before the key was looked up
\* again
C19_Witness ==
    \E t \in Callers :
        /\ Done(t) /\ thr[t].hit /\ ValidEntry(thr[t].seen, now)
        /\ last_request_time > now - RATE_DELAY
        /\ thr[t].rsleeps = <<>> /\ thr[t].calls = 0

\* caller t starts a network call in this step
CallStarts(t) == thr'[t].calls = thr[t].calls + 1

\* C20: the step that starts a network call, from line 146 and so after the
\* rate-limit sleep of the attempt, sets the last-request instant to the
\* present; no other step of the client changes it (time that passes moves
\* it into the past); so it is always the start of the latest call.
C20_InstantSetAtCallStart ==
    /\ [](lastStart >= 0 => last_request_time = lastStart)
    /\ [][\A t \in Callers :
            CallStarts(t) =>
                /\ thr[t].pc = "L146" /\ thr'[t].pc = "net"
                /\ last_request_time' = now]_vars
    /\ [][last_request_time' # last_request_time =>
            \/ \E t \in Callers : CallStarts(t)
            \/ Tick \/ SleepOn \/ LongIdle]_vars

\* the second attempt after a 429 has just started its call
C20_Witness ==
    \E t \in Callers :
        /\ thr[t].pc = "net" /\ thr[t].calls >= 2 /\ thr[t].last = "429"
        /\ last_request_time = now

\* a call starts after an attempt that failed in the network
C20_WitnessTransient ==
    \E t \in Callers :
        /\ thr[t].pc = "net" /\ thr[t].calls >= 2 /\ thr[t].last = "transient"
        /\ last_request_time = now

----------------------------------------------------------------------------
(* What changes a cache entry.                                             *)

\* caller t is in _write_cache for the file p after an attempt that succeeded
WritesFor(t, p) ==
    /\ thr[t].use_cache /\ thr[t].last = "ok"
    /\ CachePath(thr[t].url) = p
    /\ thr[t].pc \in {"L120", "L123"}

\* C21: a cache file changes only in a step of _write_cache of a fetch with
\* use_cache whose attempt succeeded, for the file of its URL (the open
\* empties the file, the write leaves the whole entry with the time of the
\* write and the payload received), or in clear_cache, which removes it, or
\* while time passes and it grows older; no step of a fetch whose attempt
\* did not succeed changes any file.
C21_EntryChangesOnlyBy ==
    /\ [][\A p \in Paths :
            files'[p] # files[p] =>
                \/ lastOp'.op = "clear" /\ lastOp' # lastOp /\ files'[p] = FAbsent
                \/ Tick \/ SleepOn \/ LongIdle
                \/ \E t \in Callers :
                      /\ WritesFor(t, p)
                      /\ \A q \in Paths \ {p} : files'[q] = files[q]
                      /\ \/ thr[t].pc = "L120" /\ files'[p] = FGarbled
                         \/ /\ thr[t].pc = "L123"
                            /\ files'[p] =
                                 FJson(JObj([_ts |-> JNum(now),
                                             _payload |-> thr[t].data]))]_vars
    /\ [][\A t \in Callers :
            (thr'[t] # thr[t] /\ thr[t].op = "fetch" /\ thr[t].last # "ok"
             /\ thr[t].pc \notin {"idle", "done"})
                => files' = files \/ Tick \/ SleepOn \/ LongIdle]_vars

\* a fetch with use_cache ended in an error while an entry another fetch
\* wrote is still in the cache
C21_Witness ==
    \E t \in Callers :
        /\ Done(t) /\ thr[t].use_cache /\ thr[t].ret.kind = "raise"
        /\ \E p \in Paths : files[p].st = "json"

\* a fetch with use_cache ran out of attempts on 429 beside a kept entry
C21_WitnessExhausted ==
    \E t \in Callers :
        /\ Done(t) /\ thr[t].use_cache /\ thr[t].all429
        /\ thr[t].calls = MAX_RETRIES
        /\ \E p \in Paths : files[p].st = "json"

\* a successful fetch has just written its entry
C21_WitnessWritten ==
    \E t \in Callers :
        /\ thr[t].pc = "ret" /\ thr[t].use_cache /\ thr[t].last = "ok"
        /\ files[CachePath(thr[t].url)] =
             FJson(JObj([_ts |-> JNum(now), _payload |-> thr[t].data]))

----------------------------------------------------------------------------
(* A fetch that bypasses the cache.                                        *)

\* caller t runs _fetch(url, use_cache=False)
Uncached(t) ==
    /\ thr[t].op = "fetch" /\ ~thr[t].use_cache
    /\ thr[t].pc \notin {"idle"}

\* C22: a fetch with use_cache false is never at a step of _read_cache or
\* _write_cache and has read no file, so it is never answered from the
\* cache and has issued at least one network call when it ends, also while
\* a valid entry for its URL exists; none of its steps changes a cache file.
C22_UncachedFetch ==
    /\ [](\A t \in Callers :
            Uncached(t) =>
                /\ thr[t].pc \notin {"L109", "L111", "L120", "L123"}
                /\ thr[t].seen = FAbsent /\ ~thr[t].hit
                /\ thr[t].pc \in {"ret", "done"} => thr[t].calls >= 1)
    /\ [][\A t \in Callers :
            (Uncached(t) /\ thr'[t] # thr[t])
                => files' = files \/ Tick \/ SleepOn \/ LongIdle]_vars

\* a fetch that bypassed the cache returned the server's answer while the
\* entry an earlier fetch wrote for its URL is valid and as it was written
C22_Witness ==
    \E t \in Callers :
        /\ Done(t) /\ ~thr[t].use_cache /\ thr[t].ret.kind = "val"
        /\ thr[t].ret.val # JNull /\ thr[t].calls = 1
        /\ thr[t].prev.op = "fetch" /\ thr[t].prev.url = thr[t].url
        /\ thr[t].prev.wrote
        /\ ValidEntry(files[CachePath(thr[t].url)], now)

----------------------------------------------------------------------------
(* A traversal whose page fetch fails.                                     *)

\* the first n elements of the sequence s
Prefix(s, n) == SubSeq(s, 1, n)

\* the traversal of caller t ended at a page fetch that ran out of attempts
\* on 429 and so returned None
EndedOnNone(t) == Walked(t) /\ thr[t].last = "429"

\* C23: a traversal whose page fetch returned None (every attempt answered
\* 429) stops there: that fetch was its last, the pages it took are the
\* pages of the chain before that one, the callback ran once for each of
\* them and not for the failed page, and it returns their results in order,
\* the empty list when the first page failed.
C23_StopsOnNoResult ==
    /\ [](\A t \in Callers :
            EndedOnNone(t) =>
                /\ thr[t].calls = MAX_RETRIES
                /\ thr[t].fetches = Len(thr[t].pages) + 1
                /\ thr[t].pages =
                     Prefix(ChainFrom(ListUrl(thr[t].op), Cardinality(PageUrls)),
                            Len(thr[t].pages))
                /\ thr[t].url \notin {thr[t].pages[i] : i \in DOMAIN thr[t].pages}
                /\ Len(thr[t].cbs) =
                     (IF thr[t].op = "get_projects" /\ thr[t].callback
                      THEN Len(thr[t].pages) ELSE 0)
                /\ thr[t].ret = Ret(JList(Concat(thr[t].pages))))
    /\ [][\A t \in Callers :
            (thr[t].pc = "ret" /\ thr[t].op \in ListOps /\ thr[t].ret = RetNone
             /\ thr'[t] # thr[t] /\ ~(Tick \/ SleepOn))
                => /\ thr'[t].pc = "done"
                   /\ thr'[t].fetches = thr[t].fetches
                   /\ thr'[t].cbs = thr[t].cbs
                   /\ thr'[t].pages = thr[t].pages
                   /\ thr'[t].ret = Ret(JList(thr[t].all))]_vars

\* the second or third page of a list of projects returned None after the
\* callback had run for the pages before it
C23_Witness ==
    \E t \in Callers :
        /\ EndedOnNone(t) /\ thr[t].op = "get_projects" /\ thr[t].callback
        /\ Len(thr[t].pages) >= 1 /\ Len(thr[t].cbs) = Len(thr[t].pages)
        /\ thr[t].ret.val.l # <<>>

\* the first page returned None: the empty list
C23_WitnessFirstPage ==
    \E t \in Callers :
        /\ EndedOnNone(t) /\ thr[t].pages = <<>>
        /\ thr[t].ret = Ret(JList(<<>>))

\* a list of components stopped at its second page
C23_WitnessComponents ==
    \E t \in Callers :
        /\ EndedOnNone(t) /\ thr[t].op = "get_components"
        /\ Len(thr[t].pages) = 1

----------------------------------------------------------------------------
(* What ends a traversal.                                                  *)

\* caller t is in a traversal
Walking(t) == thr[t].op \in ListOps /\ thr[t].pc # "idle"

\* _fetch hands a page to the traversal of caller t in this step
TakesPage(t) ==
    /\ thr[t].pc = "ret" /\ thr[t].op \in ListOps
    /\ thr[t].ret.kind = "val" /\ thr[t].ret.val # JNull
    /\ thr'[t].pc # "ret"

\* C24: a traversal that has taken a page goes on to the page's next URL
\* whenever the page has one and ends when it has none, whatever count the
\* page reports and however many pages were taken; and every traversal
\* of a chain of distinct pages ends.
C24_FollowsNext ==
    /\ [][\A t \in Callers :
            TakesPage(t) =>
                LET next == thr[t].ret.val.o.next
                IN  /\ thr'[t].pages = Append(thr[t].pages, thr[t].url)
                    /\ IF next = JNull
                       THEN /\ thr'[t].pc = "done"
                            /\ thr'[t].fetches = thr[t].fetches
                       ELSE /\ thr'[t].pc # "done"
                            /\ thr'[t].url = next.s
                            /\ thr'[t].fetches = thr[t].fetches + 1]_vars
    /\ \A t \in Callers : Walking(t) ~> Walked(t)

\* the callback was told of a page beyond the total: the second page came
\* although the first reported at most 50 entries
C24_Witness ==
    \E t \in Callers :
        /\ Walked(t) /\ thr[t].ret.kind = "val"
        /\ \E i \in DOMAIN thr[t].cbs : thr[t].cbs[i][1] > thr[t].cbs[i][2]

\* the traversal ended after one page that reported 51 entries
C24_WitnessEarly ==
    \E t \in Callers :
        /\ Walked(t) /\ thr[t].ret.kind = "val"
        /\ thr[t].cbs = <<<<1, 2>>>> /\ thr[t].fetches = 1

----------------------------------------------------------------------------
(* The final attempt.                                                      *)

\* the sum of the numbers of the sequence b
RECURSIVE Sum(_)
Sum(b) == IF b = <<>> THEN 0 ELSE Head(b) + Sum(Tail(b))

\* the backoff after the final attempt
FinalBackoff == RATE_DELAY * Pow2(MAX_RETRIES - 1)

\* the fetch of caller t ends in this step
Ends(t) == thr[t].pc # "ret" /\ thr'[t].pc = "ret" /\ thr'[t].url = thr[t].url

\* C28: a 429 on the final attempt starts a sleep of RATE_DELAY *
\* 2^(MAX_RETRIES - 1), the sleep ends no earlier than its wake-up time, and
\* only then, at the loop head, the fetch returns None; a network failure on
\* the final attempt ends the fetch in the step that receives it, raising,
\* with no backoff added; a fetch answered 429 on every attempt has slept
\* backoffs of RATE_DELAY * (2^MAX_RETRIES - 1) in total when it returns.
C28_FinalAttempt ==
    /\ [][\A t \in Callers :
            (thr[t].pc = "net" /\ thr[t].attempt = MAX_RETRIES - 1
             /\ thr'[t].pc # "net" /\ thr'[t].last = "429")
                => /\ thr'[t].pc = "bsleep"
                   /\ thr'[t].wake = now + FinalBackoff
                   /\ thr'[t].backoffs = Append(thr[t].backoffs, FinalBackoff)]_vars
    /\ [][\A t \in Callers :
            (thr[t].pc = "bsleep" /\ thr'[t].pc # "bsleep")
                => thr[t].wake <= now /\ thr'[t].pc = "L137"]_vars
    /\ [][\A t \in Callers :
            (Ends(t) /\ thr'[t].last = "429")
                => /\ thr[t].pc = "L137" /\ thr[t].attempt = MAX_RETRIES
                   /\ thr'[t].ret = RetNone
                   /\ thr[t].backoffs # <<>>
                   /\ thr[t].backoffs[Len(thr[t].backoffs)] = FinalBackoff]_vars
    /\ [][\A t \in Callers :
            (Ends(t) /\ thr'[t].last = "transient")
                => /\ thr[t].pc = "net" /\ thr[t].attempt = MAX_RETRIES - 1
                   /\ thr'[t].ret = Raise("URLError")
                   /\ thr'[t].backoffs = thr[t].backoffs
                   /\ thr'[t].wake = thr[t].wake]_vars
    /\ [](\A t \in Callers :
            (thr[t].pc \in {"ret", "done"} /\ thr[t].calls > 0
             /\ thr[t].all429 /\ thr[t].ioerrs = 0)
                => Sum(thr[t].backoffs) = RATE_DELAY * (Pow2(MAX_RETRIES) - 1))

\* a fetch whose final attempt was answered 429, after attempts that failed
\* otherwise, has slept the final backoff and returned None
C28_Witness ==
    \E t \in Callers :
        /\ Done(t) /\ thr[t].last = "429" /\ ~thr[t].all429
        /\ thr[t].ret = RetNone
        /\ thr[t].backoffs[Len(thr[t].backoffs)] = FinalBackoff

\* a fetch answered 429 five times has returned
C28_WitnessAll ==
    \E t \in Callers :
        /\ Done(t) /\ thr[t].all429 /\ thr[t].calls = MAX_RETRIES
        /\ Sum(thr[t].backoffs) = RATE_DELAY * (Pow2(MAX_RETRIES) - 1)

\* the final attempt failed in the network: four backoffs and no fifth
C28_WitnessTransient ==
    \E t \in Callers :
        /\ Done(t) /\ thr[t].last = "transient"
        /\ thr[t].calls = MAX_RETRIES /\ Len(thr[t].backoffs) = MAX_RETRIES - 1

----------------------------------------------------------------------------
(* A traversal whose page fetch raises.                                    *)

\* the traversal of caller t ended at a page fetch whose latest call was
\* answered with an HTTP error other than 429 or failed in the network
EndedOnError(t) == Walked(t) /\ thr[t].last \in {"http", "transient"}

\* C29: a traversal whose page fetch raised ends with that exception and
\* returns no list, though it had collected the results of the pages before;
\* that fetch was its last, and the cache holds, for each page taken before,
\* a valid entry with the page as its payload.
C29_ErrorPropagates ==
    /\ [](\A t \in Callers :
            EndedOnError(t) =>
                /\ thr[t].ret =
                     Raise(IF thr[t].last = "http" THEN "HTTPError" ELSE "URLError")
                /\ thr[t].last = "transient" => thr[t].calls = MAX_RETRIES
                /\ thr[t].fetches = Len(thr[t].pages) + 1
                /\ Len(thr[t].all) = Len(Concat(thr[t].pages))
                /\ \A i \in DOMAIN thr[t].pages :
                      LET f == files[CachePath(thr[t].pages[i])]
                      IN  /\ ValidEntry(f, now)
                          /\ f.v.o["_payload"] = server[thr[t].pages[i]])
    /\ [][\A t \in Callers :
            (thr[t].pc = "ret" /\ thr[t].op \in ListOps
             /\ thr[t].ret.kind = "raise" /\ thr'[t].pc # "ret")
                => /\ thr'[t].pc = "done" /\ thr'[t].ret = thr[t].ret
                   /\ files' = files]_vars

\* the second page of a list of projects failed in the network five times
\* after the first page's results had been collected
C29_Witness ==
    \E t \in Callers :
        /\ EndedOnError(t) /\ thr[t].last = "transient"
        /\ thr[t].op = "get_projects"
        /\ Len(thr[t].pages) >= 1 /\ thr[t].all # <<>>
        /\ thr[t].ret.kind = "raise"

\* a later page was answered with a non-retryable status
C29_WitnessStatus ==
    \E t \in Callers :
        /\ EndedOnError(t) /\ thr[t].last = "http"
        /\ Len(thr[t].pages) >= 1 /\ thr[t].all # <<>>
        /\ ValidEntry(files[CachePath(thr[t].pages[1])], now)

----------------------------------------------------------------------------
(* Callers that race on one cache file.                                    *)

\* caller t has been through _write_cache for the answer of its fetch, and
\* the file it wrote has not been unlinked since it opened it
Wrote(t) ==
    /\ thr[t].op = "fetch" /\ thr[t].use_cache /\ thr[t].last = "ok"
    /\ thr[t].pc \in {"ret", "done"} /\ ~thr[t].orphan

\* C25: when two callers have both written the entry of one URL, the file is
\* an entry that holds the payload of one of them.
C25_LastWriterWins ==
    \A t, u \in Callers :
        (t # u /\ Wrote(t) /\ Wrote(u) /\ thr[t].url = thr[u].url) =>
            LET f == files[CachePath(thr[t].url)]
            IN  /\ f.st = "json" /\ f.v.t = "obj"
                /\ Get(f.v, "_payload", JNull) \in {thr[t].data, thr[u].data}

----------------------------------------------------------------------------
(* save_api_key beside a running resolver.                                 *)

\* C26: when save_api_key of the token "n" and a resolver that went through
\* the lookup chain have both finished, the memoized key is "n".
C26_SavedTokenStays ==
    \A t, u \in Callers :
        (/\ Saved(t) /\ thr[t].key = Some(<<"n">>)
         /\ Resolved(u) /\ thr[u].queried # <<>>)
            => api_key = Some(<<"n">>)

----------------------------------------------------------------------------
(* The cache after the key dialog.                                         *)

\* C27: after on_response has saved the key "n" and cleared the cache, a
\* payload the worker it starts is served from the cache is the answer to a
\* request that carried "n".
C27_ServedAfterClear ==
    \A t \in Callers :
        (thr[t].op = "reload" /\ thr[t].hit) =>
            thr[t].ret.val \in StatBodies(Some(<<"n">>))

=============================================================================
